---------------------------- MODULE Spec2Model ----------------------------
(***************************************************************************)
(* Narration synthesis (generate_audio) and segment-synchronised playback  *)
(* (Scene.construct / Scene.segment) of the three example videos:          *)
(* binary search, depth-first search and Dijkstra v2.                      *)
(*                                                                         *)
(* Time is counted in whole milliseconds.  The Python code holds seconds   *)
(* as binary doubles; a value of s seconds is the integer 1000*s here, so  *)
(* 3.52 is 3520 and round(x, 2) yields a multiple of 10.                   *)
(***************************************************************************)
EXTENDS Integers, Sequences, FiniteSets

VARIABLES
    prog,          \* which script was started: "audio" or "scene"
    \* ---- generate_audio -------------------------------------------------
    example,       \* which *_audio.py module runs
    script,        \* the SCRIPT list the run iterates
    pause,         \* local `pause`
    apc,           \* position inside generate_audio
    clips,         \* ids of the <id>.mp3 files written by communicate.save
    measured,      \* the durations float(result.stdout) returned so far
    timing,        \* local list `timing`
    cumulative,    \* local `cumulative`
    total,         \* local `total` (-1 before it is assigned)
    timing_json,   \* content of timing.json (<<>> while not written)
    silence_mp3,   \* silence.mp3 exists
    concat_txt,    \* lines of concat.txt (<<>> while not written)
    full_mp3,      \* full.mp3 exists
    outstanding,   \* indexes of the segments whose communicate.save is in flight
    failures,      \* the external calls that failed so far, in order
    offsets,       \* the value of `cumulative` each record was built from
    \* ---- Scene.construct / Scene.segment ---------------------------------
    scene,         \* which Scene subclass is rendered
    spc,           \* position inside construct / segment
    k,             \* index of the next entry of construct's call list
    time,          \* self.renderer.time
    seg_id,        \* argument seg_id of the running segment call
    target,        \* local `target` of the running segment call
    start,         \* local `start` of the running segment call
    elapsed,       \* local `elapsed` of the last segment call
    waited,        \* argument of self.wait in the last segment call, 0 if not called
    animEnd,       \* clock reading when the last action (anim_func) returned
    invoked,       \* ids whose action has been invoked, in order
    sumMax,        \* sum over finished segment calls of max(elapsed, target)
    overran,       \* some finished segment call had elapsed > target
    padded,        \* some finished segment call had elapsed < target
    exact,         \* every action so far took exactly its stated run times
    attrs,         \* the instance attributes assigned on the scene so far
    self           \* the data the scene object holds (see NoData)

audioVars == << example, script, pause, apc, clips, measured, timing, cumulative,
                total, timing_json, silence_mp3, concat_txt, full_mp3,
                outstanding, failures, offsets >>

sceneVars == << scene, spc, k, time, seg_id, target, start, elapsed, waited,
                animEnd, invoked, sumMax, overran, padded, exact, attrs,
                self >>

\* What the action methods leave on the scene object.
objVars == << attrs, self >>

vars == << prog, audioVars, sceneVars >>

\* Longest SCRIPT prefix a modelled run of generate_audio iterates.
MaxSegs == 3

\* The clip lengths ffprobe may report, in milliseconds.  3020 and 2070 are
\* the lengths of the first two binary-search clips; 1004 has a third decimal
\* digit; 828 followed by 1687 brings `cumulative` to 3.515, a decimal tie.
Durations == {828, 1004, 1687, 2070, 3020}

\* binary_search_audio.py:12-25  SCRIPT
SCRIPT_binary_search ==
    << [id |-> "01_hook", text |-> "How do you find a word in a dictionary?"],
       [id |-> "02_answer", text |-> "Binary Search."],
       [id |-> "03_setup", text |-> "Imagine a sorted array of numbers. We want to find a target value."],
       [id |-> "04_naive", text |-> "We could check every element one by one. But that's slow."],
       [id |-> "05_insight", text |-> "The key insight: if the array is sorted, we can eliminate half the elements at once."],
       [id |-> "06_step1", text |-> "Start in the middle. Is our target greater or less than this value?"],
       [id |-> "07_step2", text |-> "If greater, search the right half. If less, search the left half."],
       [id |-> "08_step3", text |-> "Repeat. Each step cuts the search space in half."],
       [id |-> "09_example", text |-> "Let's find 23 in this array. Middle is 15. 23 is greater, so go right."],
       [id |-> "10_example2", text |-> "New middle is 27. 23 is less, so go left. Found it!"],
       [id |-> "11_complexity", text |-> "With 16 elements, we need at most 4 steps. That's log n."],
       [id |-> "12_takeaway", text |-> "Divide and conquer turns linear search into logarithmic search."] >>

\* dfs_audio.py:14-24  SCRIPT
SCRIPT_dfs ==
    << [id |-> "01_hook", text |-> "How do you escape a maze?"],
       [id |-> "02_insight", text |-> "Go as deep as you can. Hit a wall? Backtrack and try another path."],
       [id |-> "03_name", text |-> "This is Depth-First Search."],
       [id |-> "04_start", text |-> "Start at the entrance. Pick a path and commit."],
       [id |-> "05_deep", text |-> "Keep going deeper. Don't look back."],
       [id |-> "06_stuck", text |-> "Dead end! Time to backtrack."],
       [id |-> "07_try", text |-> "Back up and try the next unexplored path."],
       [id |-> "08_found", text |-> "Keep exploring until you find the exit."],
       [id |-> "09_takeaway", text |-> "Depth-first: Dive deep, then retreat. That's DFS."] >>

\* dijkstra_v2_audio.py:13-47  SCRIPT
SCRIPT_dijkstra_v2 ==
    << [id |-> "01_hook", text |-> "How does your GPS find the shortest route?"],
       [id |-> "02_answer", text |-> "It uses Dijkstra's algorithm."],
       [id |-> "03_graph", text |-> "Imagine a map as a graph. Cities are nodes. Roads are edges with distances."],
       [id |-> "04_problem", text |-> "We want the shortest path from a starting city to all other cities."],
       [id |-> "05_insight", text |-> "Here's the key insight: always visit the closest unvisited city first."],
       [id |-> "06_why", text |-> "Why? Because if it's the closest, no other path can be shorter."],
       [id |-> "07_init", text |-> "Start by setting the distance to your starting point as zero, and everything else as infinity."],
       [id |-> "08_begin", text |-> "Now we begin. From A, we can reach B and C."],
       [id |-> "09_step1", text |-> "The distance to B through A is 4. The distance to C through A is 2."],
       [id |-> "10_pick_c", text |-> "C is closer. So we visit C first and mark it as done."],
       [id |-> "11_from_c", text |-> "From C, we can reach B in 2 plus 1 equals 3. That's better than 4!"],
       [id |-> "12_update_b", text |-> "We update B's distance to 3. We can also reach D through C in 10."],
       [id |-> "13_visit_b", text |-> "Now B is the closest unvisited. Visit B."],
       [id |-> "14_from_b", text |-> "From B, we can reach D in 3 plus 5 equals 8. That's better than 10!"],
       [id |-> "15_visit_d", text |-> "Visit D. From D, we reach E in 8 plus 2 equals 10."],
       [id |-> "16_visit_e", text |-> "Finally, visit E. All nodes are done."],
       [id |-> "17_result", text |-> "We now have the shortest distance from A to every other node."],
       [id |-> "18_path", text |-> "The shortest path to E is A to C to B to D to E, with total distance 10."],
       [id |-> "19_takeaway", text |-> "Dijkstra's algorithm: always pick the closest, and you'll find the optimal path."],
       [id |-> "20_complexity", text |-> "It runs in O of V squared, or O of E log V with a priority queue."] >>

\* binary_search_synced.py:10-23  TIMING, in table order; start and end in milliseconds
TIMING_BinarySearchSynced ==
    << [id |-> "01_hook", start |-> 0, end |-> 3520],
       [id |-> "02_answer", start |-> 3520, end |-> 6090],
       [id |-> "03_setup", start |-> 6090, end |-> 12320],
       [id |-> "04_naive", start |-> 12320, end |-> 17720],
       [id |-> "05_insight", start |-> 17720, end |-> 23640],
       [id |-> "06_step1", start |-> 23640, end |-> 29590],
       [id |-> "07_step2", start |-> 29590, end |-> 36070],
       [id |-> "08_step3", start |-> 36070, end |-> 41440],
       [id |-> "09_example", start |-> 41440, end |-> 49930],
       [id |-> "10_example2", start |-> 49930, end |-> 57340],
       [id |-> "11_complexity", start |-> 57340, end |-> 63580],
       [id |-> "12_takeaway", start |-> 63580, end |-> 68540] >>

\* dfs_synced.py:10-20  TIMING, in table order; start and end in milliseconds
TIMING_DFSSynced ==
    << [id |-> "01_hook", start |-> 0, end |-> 2820],
       [id |-> "02_insight", start |-> 2820, end |-> 9940],
       [id |-> "03_name", start |-> 9940, end |-> 12860],
       [id |-> "04_start", start |-> 12860, end |-> 17750],
       [id |-> "05_deep", start |-> 17750, end |-> 22060],
       [id |-> "06_stuck", start |-> 22060, end |-> 26230],
       [id |-> "07_try", start |-> 26230, end |-> 29970],
       [id |-> "08_found", start |-> 29970, end |-> 33630],
       [id |-> "09_takeaway", start |-> 33630, end |-> 39410] >>

\* dijkstra_v2_synced.py:10-31  TIMING, in table order; start and end in milliseconds
TIMING_DijkstraV2Synced ==
    << [id |-> "01_hook", start |-> 0, end |-> 3810],
       [id |-> "02_answer", start |-> 3810, end |-> 7140],
       [id |-> "03_graph", start |-> 7140, end |-> 15040],
       [id |-> "04_problem", start |-> 15040, end |-> 19880],
       [id |-> "05_insight", start |-> 19880, end |-> 25130],
       [id |-> "06_why", start |-> 25130, end |-> 31030],
       [id |-> "07_init", start |-> 31030, end |-> 37320],
       [id |-> "08_begin", start |-> 37320, end |-> 42810],
       [id |-> "09_step1", start |-> 42810, end |-> 49090],
       [id |-> "10_pick_c", start |-> 49090, end |-> 54870],
       [id |-> "11_from_c", start |-> 54870, end |-> 61560],
       [id |-> "12_update_b", start |-> 61560, end |-> 68180],
       [id |-> "13_visit_b", start |-> 68180, end |-> 73340],
       [id |-> "14_from_b", start |-> 73340, end |-> 80030],
       [id |-> "15_visit_d", start |-> 80030, end |-> 86080],
       [id |-> "16_visit_e", start |-> 86080, end |-> 90920],
       [id |-> "17_result", start |-> 90920, end |-> 95360],
       [id |-> "18_path", start |-> 95360, end |-> 101160],
       [id |-> "19_takeaway", start |-> 101160, end |-> 106870],
       [id |-> "20_complexity", start |-> 106870, end |-> 112220] >>

(***************************************************************************)
(* generate_audio                                                          *)
(***************************************************************************)

Examples == {"binary_search", "dfs", "dijkstra_v2"}

\* The module-level SCRIPT of each *_audio.py.
SCRIPT(ex) ==
    CASE ex = "binary_search" -> SCRIPT_binary_search
      [] ex = "dfs"           -> SCRIPT_dfs
      [] ex = "dijkstra_v2"   -> SCRIPT_dijkstra_v2

\* pause = 0.5 (binary search, Dijkstra v2), pause = 0.4 (DFS).
Pause(ex) ==
    CASE ex = "binary_search" -> 500
      [] ex = "dfs"           -> 400
      [] ex = "dijkstra_v2"   -> 500

\* round(x, 2) for x >= 0.  Python rounds the binary double correctly to two
\* decimals.  When the decimal value lies exactly between two hundredths
\* (x.xx5) the double nearest to it lies slightly below or slightly above,
\* depending on the value and on how it was summed; whole milliseconds do not
\* determine which, so both results are possible there.
Round2(x) ==
    LET r  == x % 10
        lo == x - r
    IN  IF r < 5 THEN {lo}
        ELSE IF r > 5 THEN {lo + 10}
        ELSE {lo, lo + 10}

\* "start": round(cumulative, 2)
StartOf(c) == Round2(c)

\* "duration": round(duration, 2)
DurationOf(d) == Round2(d)

\* Variant of EndOf: the pause is left out of the window's end.
EndOfWithoutPause(c, d, p) == Round2(c + d)

\* "end": round(cumulative + duration + pause, 2)
EndOf(c, d, p) == Round2(c + d + p)

\* Variant of Accumulate: the offset advances by the rounded duration.
AccumulateRounded(c, d, p) == c + (((d + 5) \div 10) * 10 + p)

\* Variant of Accumulate: the pause is not counted into the offset.
AccumulateWithoutPause(c, d, p) == c + d

\* cumulative += duration + pause
Accumulate(c, d, p) == c + (d + p)

\* Variant of Total: the pause after the last segment is taken back.
TotalWithoutLastPause(c) == c - pause

\* total = cumulative
Total(c) == c

\* The dict appended to `timing`.
Segment(seg, s, d, e) ==
    [id |-> seg.id, start |-> s, duration |-> d, end |-> e, text |-> seg.text]

\* Variant of ConcatLines: silence.mp3 follows every clip, the last too.
RECURSIVE ConcatLinesTrailing(_, _)
ConcatLinesTrailing(s, i) ==
    IF i > Len(s) THEN << >>
    ELSE << s[i].id, "silence" >> \o ConcatLinesTrailing(s, i + 1)

\* The lines written to concat.txt: the clip of every segment, and
\* silence.mp3 after every clip but the last.
RECURSIVE ConcatLines(_, _)
ConcatLines(s, i) ==
    IF i > Len(s) THEN << >>
    ELSE << s[i].id >>
         \o (IF i - 1 < Len(s) - 1 THEN << "silence" >> ELSE << >>)
         \o ConcatLines(s, i + 1)

\* Variant of AwaitSave: the coroutine is not awaited and the loop goes on
\* to the probe while the synthesis is in flight.
AwaitSaveNotAwaited == "probe"

\* await communicate.save(path): generate_audio is suspended until the
\* synthesis has ended.
AwaitSave == "saving"

\* Variant of OnError: the exception is swallowed and the loop goes on.
OnErrorContinue(at) == at

\* No try/except anywhere in generate_audio: an exception raised at position
\* `at` leaves the function.
OnError(at) == "raised"

\* Variant of AfterSegment: the manifest is saved after every segment.
AfterSegmentSaveEach(i, n) == "save"

\* for seg in SCRIPT: after segment i of n, the next iteration or the code
\* after the loop.
AfterSegment(i, n) == IF i < n THEN "synth" ELSE "save"

\* What a subprocess.run(["ffmpeg", ...]) call can meet: the tool runs and
\* exits with 0, runs and exits with another status, or cannot be started.
ToolOutcomes == {"ok", "exit_nonzero", "not_started"}

\* subprocess.run([...], capture_output=True): no check=True and the
\* returncode is not read, so the code after the call runs whatever the exit
\* status; an executable that cannot be started raises FileNotFoundError.
AfterTool(outcome, next) ==
    IF outcome = "not_started" THEN OnError(next) ELSE next

\* communicate = edge_tts.Communicate(seg["text"], voice); communicate.save(path)
\* is called for the segment after those already timed.
Synthesize ==
    /\ prog = "audio"
    /\ apc = "synth"
    /\ outstanding' = outstanding \cup {Len(timing) + 1}
    /\ apc' = AwaitSave
    /\ UNCHANGED << prog, example, script, pause, clips, measured, timing,
                    cumulative, total, timing_json, silence_mp3, concat_txt,
                    full_mp3, failures, offsets >>
    /\ UNCHANGED sceneVars

\* The awaited communicate.save ends: the clip is on disk, or edge_tts raises.
SaveEnds ==
    /\ prog = "audio"
    /\ apc = "saving"
    /\ LET i == Len(timing) + 1
       IN  /\ outstanding' = outstanding \ {i}
           /\ \/ /\ clips' = Append(clips, script[i].id)
                 /\ apc' = "probe"
                 /\ UNCHANGED failures
              \/ /\ failures' = Append(failures, [tool |-> "edge_tts", seg |-> i])
                 /\ apc' = OnError("probe")
                 /\ UNCHANGED clips
    /\ UNCHANGED << prog, example, script, pause, measured, timing, cumulative,
                    total, timing_json, silence_mp3, concat_txt, full_mp3, offsets >>
    /\ UNCHANGED sceneVars

\* ffprobe, float(result.stdout.strip()), timing.append(...), cumulative += ...
Probe ==
    /\ prog = "audio"
    /\ apc = "probe"
    /\ LET i   == Len(timing) + 1
           seg == script[i]
       IN  \/ \E duration \in Durations :
              \E s \in StartOf(cumulative) :
              \E d \in DurationOf(duration) :
              \E e \in EndOf(cumulative, duration, pause) :
                 /\ measured' = Append(measured, duration)
                 /\ timing' = Append(timing, Segment(seg, s, d, e))
                 /\ offsets' = Append(offsets, cumulative)
                 /\ cumulative' = Accumulate(cumulative, duration, pause)
                 /\ apc' = AfterSegment(i, Len(script))
                 /\ UNCHANGED failures
           \/ \* ffprobe failed or printed no number: float() raises ValueError
              /\ failures' = Append(failures, [tool |-> "ffprobe", seg |-> i])
              /\ apc' = OnError(AfterSegment(i, Len(script)))
              /\ UNCHANGED << measured, timing, cumulative, offsets >>
    /\ UNCHANGED << prog, example, script, pause, clips, total, timing_json,
                    silence_mp3, concat_txt, full_mp3, outstanding >>
    /\ UNCHANGED sceneVars

\* total = cumulative; json.dump({"total": total, "segments": timing}, f)
SaveTiming ==
    /\ prog = "audio"
    /\ apc = "save"
    /\ total' = Total(cumulative)
    /\ timing_json' = Append(timing_json, [total |-> total', segments |-> timing])
    /\ apc' = "silence"
    /\ UNCHANGED << prog, example, script, pause, clips, measured, timing,
                    cumulative, silence_mp3, concat_txt, full_mp3,
                    outstanding, failures, offsets >>
    /\ UNCHANGED sceneVars

\* subprocess.run(["ffmpeg", ... silence.mp3]): the exit status is not read.
MakeSilence ==
    /\ prog = "audio"
    /\ apc = "silence"
    /\ \E outcome \in ToolOutcomes :
          /\ silence_mp3' = (outcome = "ok")
          /\ failures' = IF outcome = "ok" THEN failures
                         ELSE Append(failures, [tool |-> "ffmpeg_silence", seg |-> 0])
          /\ apc' = AfterTool(outcome, "concat")
    /\ UNCHANGED << prog, example, script, pause, clips, measured, timing,
                    cumulative, total, timing_json, concat_txt, full_mp3,
                    outstanding, offsets >>
    /\ UNCHANGED sceneVars

\* with open(".../concat.txt", "w") as f: ...
WriteConcat ==
    /\ prog = "audio"
    /\ apc = "concat"
    /\ concat_txt' = ConcatLines(script, 1)
    /\ apc' = "full"
    /\ UNCHANGED << prog, example, script, pause, clips, measured, timing,
                    cumulative, total, timing_json, silence_mp3, full_mp3,
                    outstanding, failures, offsets >>
    /\ UNCHANGED sceneVars

\* subprocess.run(["ffmpeg", ... full.mp3]), the prints, return timing, total.
MakeFull ==
    /\ prog = "audio"
    /\ apc = "full"
    /\ \E outcome \in ToolOutcomes :
          /\ full_mp3' = (outcome = "ok")
          /\ failures' = IF outcome = "ok" THEN failures
                         ELSE Append(failures, [tool |-> "ffmpeg_concat", seg |-> 0])
          /\ apc' = AfterTool(outcome, "done")
    /\ UNCHANGED << prog, example, script, pause, clips, measured, timing,
                    cumulative, total, timing_json, silence_mp3, concat_txt,
                    outstanding, offsets >>
    /\ UNCHANGED sceneVars

\* binary_search_synced.py:43-54  the self.segment(...) calls of BinarySearchSynced.construct
Calls_BinarySearchSynced ==
    << [id |-> "01_hook", method |-> <<"anim_", "hook">>],
       [id |-> "02_answer", method |-> <<"anim_", "answer">>],
       [id |-> "03_setup", method |-> <<"anim_", "setup">>],
       [id |-> "04_naive", method |-> <<"anim_", "naive">>],
       [id |-> "05_insight", method |-> <<"anim_", "insight">>],
       [id |-> "06_step1", method |-> <<"anim_", "step1">>],
       [id |-> "07_step2", method |-> <<"anim_", "step2">>],
       [id |-> "08_step3", method |-> <<"anim_", "step3">>],
       [id |-> "09_example", method |-> <<"anim_", "example">>],
       [id |-> "10_example2", method |-> <<"anim_", "example2">>],
       [id |-> "11_complexity", method |-> <<"anim_", "complexity">>],
       [id |-> "12_takeaway", method |-> <<"anim_", "takeaway">>] >>

\* dfs_synced.py:50-58  the self.segment(...) calls of DFSSynced.construct
Calls_DFSSynced ==
    << [id |-> "01_hook", method |-> <<"anim_", "hook">>],
       [id |-> "02_insight", method |-> <<"anim_", "insight">>],
       [id |-> "03_name", method |-> <<"anim_", "name">>],
       [id |-> "04_start", method |-> <<"anim_", "start">>],
       [id |-> "05_deep", method |-> <<"anim_", "deep">>],
       [id |-> "06_stuck", method |-> <<"anim_", "stuck">>],
       [id |-> "07_try", method |-> <<"anim_", "try">>],
       [id |-> "08_found", method |-> <<"anim_", "found">>],
       [id |-> "09_takeaway", method |-> <<"anim_", "takeaway">>] >>

\* dijkstra_v2_synced.py:53-507  the methods class DijkstraV2Synced defines (what hasattr finds)
Methods_DijkstraV2Synced ==
    { <<"", "construct">>, <<"", "segment">>, <<"", "create_graph">>,
      <<"", "create_distance_table">>, <<"", "update_distance">>, <<"", "highlight_edge">>,
      <<"", "visit_node">>, <<"", "current_node">>, <<"anim_", "01_hook">>,
      <<"anim_", "02_answer">>, <<"anim_", "03_graph">>, <<"anim_", "04_problem">>,
      <<"anim_", "05_insight">>, <<"anim_", "06_why">>, <<"anim_", "07_init">>,
      <<"anim_", "08_begin">>, <<"anim_", "09_step1">>, <<"anim_", "10_pick_c">>,
      <<"anim_", "11_from_c">>, <<"anim_", "12_update_b">>, <<"anim_", "13_visit_b">>,
      <<"anim_", "14_from_b">>, <<"anim_", "15_visit_d">>, <<"anim_", "16_visit_e">>,
      <<"anim_", "17_result">>, <<"anim_", "18_path">>, <<"anim_", "19_takeaway">>,
      <<"anim_", "20_complexity">> }

(***************************************************************************)
(* Scene.construct and Scene.segment                                       *)
(***************************************************************************)

Scenes == {"BinarySearchSynced", "DFSSynced", "DijkstraV2Synced"}

\* Variant of TIMING: one start of the DFS table is mistyped (2.28 for 2.82).
TIMINGMistyped(sc) ==
    CASE sc = "BinarySearchSynced" -> TIMING_BinarySearchSynced
      [] sc = "DFSSynced"          -> [TIMING_DFSSynced EXCEPT ![2].start = 2280]
      [] sc = "DijkstraV2Synced"   -> TIMING_DijkstraV2Synced

\* The module-level TIMING of each *_synced.py, as the ordered list of its items.
TIMING(sc) ==
    CASE sc = "BinarySearchSynced" -> TIMING_BinarySearchSynced
      [] sc = "DFSSynced"          -> TIMING_DFSSynced
      [] sc = "DijkstraV2Synced"   -> TIMING_DijkstraV2Synced

\* Variant of TimingKeys: the dictionary yields its keys in reverse insertion
\* order.
TimingKeysReversed(sc) ==
    [i \in 1..Len(TIMING(sc)) |-> TIMING(sc)[Len(TIMING(sc)) + 1 - i].id]

\* TIMING.keys()
TimingKeys(sc) == [i \in 1..Len(TIMING(sc)) |-> TIMING(sc)[i].id]

\* t = TIMING[seg_id]
TimingEntry(sc, id) ==
    LET i == CHOOSE j \in 1..Len(TIMING(sc)) : TIMING(sc)[j].id = id
    IN  TIMING(sc)[i]

\* Variant of MethodName: the underscore after "anim" is missing.
MethodNameNoUnderscore(id) == << "anim", id >>

\* method_name = f"anim_{seg_id}"
MethodName(id) == << "anim_", id >>

\* Variant of HasAttr: the class has no method anim_08_begin.
HasAttrMissing(name) ==
    name \in Methods_DijkstraV2Synced \ { << "anim_", "08_begin" >> }

\* hasattr(self, method_name)
HasAttr(name) == name \in Methods_DijkstraV2Synced

\* for seg_id in TIMING.keys(): if hasattr(...): self.segment(seg_id, getattr(...))
RECURSIVE DijkstraCalls(_, _)
DijkstraCalls(keys, i) ==
    IF i > Len(keys) THEN << >>
    ELSE (IF HasAttr(MethodName(keys[i]))
          THEN << [id |-> keys[i], method |-> MethodName(keys[i])] >>
          ELSE << >>)
         \o DijkstraCalls(keys, i + 1)

\* Variant of ConstructCalls: construct of BinarySearchSynced calls 07_step2
\* before 06_step1.
ConstructCallsSwapped(sc) ==
    CASE sc = "BinarySearchSynced" ->
             [i \in 1..Len(Calls_BinarySearchSynced) |->
                 Calls_BinarySearchSynced[IF i = 6 THEN 7 ELSE IF i = 7 THEN 6 ELSE i]]
      [] sc = "DFSSynced"          -> Calls_DFSSynced
      [] sc = "DijkstraV2Synced"   -> DijkstraCalls(TimingKeys(sc), 1)

\* The segment calls construct makes, in program order.
ConstructCalls(sc) ==
    CASE sc = "BinarySearchSynced" -> Calls_BinarySearchSynced
      [] sc = "DFSSynced"          -> Calls_DFSSynced
      [] sc = "DijkstraV2Synced"   -> DijkstraCalls(TimingKeys(sc), 1)

\* target = t["end"] - t["start"]
Target(t) == t.end - t.start

\* elapsed = self.renderer.time - start
Elapsed(now, begin) == now - begin

\* Variant of PadWait: a shorter action is followed by a wait of the whole target.
PadWaitWholeTarget(tgt, el) == IF el < tgt THEN tgt ELSE 0

\* Variant of PadWait: the wait is the distance between elapsed and target.
PadWaitDistance(tgt, el) == IF el < tgt THEN tgt - el ELSE el - tgt

\* Variant of PadWait: the wait lasts until the segment's end on the audio
\* track, so slack absorbs an earlier overrun.
PadWaitCatchUp(tgt, el) ==
    LET due == TimingEntry(scene, seg_id).end
    IN  IF time < due THEN due - time ELSE 0

\* if elapsed < target: self.wait(target - elapsed)  -- the time waited
PadWait(tgt, el) == IF el < tgt THEN tgt - el ELSE 0

Max(a, b) == IF a >= b THEN a ELSE b

\* What each action method of BinarySearchSynced executes, helper methods
\* included, in execution order (loops unrolled, the branches taken in
\* construct order):
\*   <<"get", a>>, <<"set", a>>   a read, an assignment of self.<a>; a repeated
\*                               access of the same kind within one method is
\*                               listed once, where it first happens;
\*   <<"play", ms>>, <<"wait", ms>>   a self.play with run_time, a self.wait
\*                               with duration, in milliseconds;
\*   any other tuple             a call that changes the data of the scene
\*                               object (see Call), listed before the first
\*                               play of the call.
Events_BinarySearchSynced ==
    << [method |-> <<"anim_", "hook">>,
        events |-> << <<"set", "hook_text">>, <<"get", "hook_text">>,
                     <<"play", 2500>> >>],
       [method |-> <<"anim_", "answer">>,
        events |-> << <<"get", "hook_text">>, <<"play", 1200>>, <<"wait", 500>>,
                     <<"play", 500>> >>],
       [method |-> <<"anim_", "setup">>,
        events |-> << <<"play", 1000>>, <<"set", "array_values">>,
                     <<"get", "array_values">>, <<"set", "boxes">>,
                     <<"set", "texts">>, <<"get", "boxes">>,
                     <<"set", "index_labels">>, <<"get", "texts">>,
                     <<"get", "index_labels">>, <<"play", 2000>>,
                     <<"play", 800>>, <<"set", "target_label">>,
                     <<"get", "target_label">>, <<"play", 1000>>,
                     <<"set", "title">> >>],
       [method |-> <<"anim_", "naive">>,
        events |-> << <<"get", "boxes">>, <<"play", 400>>, <<"play", 200>>,
                     <<"play", 400>>, <<"play", 200>>, <<"play", 400>>,
                     <<"play", 200>>, <<"play", 400>>, <<"play", 200>>,
                     <<"play", 400>>, <<"play", 200>>, <<"play", 400>>,
                     <<"play", 200>>, <<"play", 800>>, <<"wait", 500>>,
                     <<"play", 500>> >>],
       [method |-> <<"anim_", "insight">>,
        events |-> << <<"get", "title">>, <<"play", 1500>>, <<"get", "boxes">>,
                     <<"play", 1000>>, <<"wait", 500>>, <<"play", 500>>,
                     <<"set", "insight_box">>, <<"set", "insight_text">> >>],
       [method |-> <<"anim_", "step1">>,
        events |-> << <<"get", "boxes">>, <<"play", 800>>, <<"play", 500>>,
                     <<"play", 1000>>, <<"set", "mid_pointer">>,
                     <<"set", "question">> >>],
       [method |-> <<"anim_", "step2">>,
        events |-> << <<"get", "question">>, <<"play", 800>>, <<"get", "boxes">>,
                     <<"play", 800>>, <<"get", "mid_pointer">>, <<"play", 300>>,
                     <<"play", 500>>, <<"play", 500>>, <<"play", 800>>,
                     <<"set", "mid_pointer">> >>],
       [method |-> <<"anim_", "step3">>,
        events |-> << <<"get", "question">>, <<"play", 600>>, <<"get", "boxes">>,
                     <<"play", 800>>, <<"get", "mid_pointer">>,
                     <<"get", "insight_box">>, <<"get", "insight_text">>,
                     <<"play", 800>> >>],
       [method |-> <<"anim_", "example">>,
        events |-> << <<"play", 1000>>, <<"get", "boxes">>, <<"play", 50>>,
                     <<"play", 50>>, <<"play", 50>>, <<"play", 50>>,
                     <<"play", 50>>, <<"play", 50>>, <<"play", 50>>,
                     <<"play", 50>>, <<"play", 500>>, <<"play", 500>>,
                     <<"play", 500>>, <<"play", 1000>>, <<"play", 800>>,
                     <<"set", "example_title">>, <<"set", "left_ptr">>,
                     <<"set", "right_ptr">>, <<"set", "mid_ptr">>,
                     <<"set", "compare">> >>],
       [method |-> <<"anim_", "example2">>,
        events |-> << <<"get", "boxes">>, <<"get", "left_ptr">>,
                     <<"get", "mid_ptr">>, <<"play", 600>>, <<"play", 500>>,
                     <<"get", "compare">>, <<"play", 800>>, <<"play", 800>>,
                     <<"get", "right_ptr">>, <<"play", 800>>,
                     <<"set", "check">> >>],
       [method |-> <<"anim_", "complexity">>,
        events |-> << <<"get", "example_title">>, <<"get", "compare">>,
                     <<"get", "check">>, <<"play", 500>>, <<"play", 2000>>,
                     <<"get", "boxes">>, <<"play", 1000>>,
                     <<"set", "complexity_text">>, <<"set", "big_o">> >>],
       [method |-> <<"anim_", "takeaway">>,
        events |-> << <<"get", "complexity_text">>, <<"get", "boxes">>,
                     <<"get", "texts">>, <<"get", "index_labels">>,
                     <<"get", "target_label">>, <<"play", 500>>,
                     <<"get", "big_o">>, <<"play", 500>>, <<"play", 2000>> >>] >>

\* The same for DFSSynced.
Events_DFSSynced ==
    << [method |-> <<"anim_", "hook">>,
        events |-> << <<"play", 2000>>, <<"set", "hook_text">> >>],
       [method |-> <<"anim_", "insight">>,
        events |-> << <<"get", "hook_text">>, <<"play", 1500>>, <<"play", 1000>>,
                     <<"wait", 500>>, <<"play", 1000>>, <<"set", "arrows">> >>],
       [method |-> <<"anim_", "name">>,
        events |-> << <<"get", "hook_text">>, <<"get", "arrows">>,
                     <<"play", 500>>, <<"play", 1500>>, <<"play", 500>> >>],
       [method |-> <<"anim_", "start">>,
        events |-> << <<"set", "positions">>, <<"set", "edges_list">>,
                     <<"set", "nodes">>, <<"set", "node_labels">>,
                     <<"get", "positions">>, <<"get", "nodes">>,
                     <<"get", "node_labels">>, <<"set", "edges">>,
                     <<"get", "edges_list">>, <<"get", "edges">>,
                     <<"set", "explorer">>, <<"get", "explorer">>,
                     <<"set", "explorer_glow">>, <<"get", "explorer_glow">>,
                     <<"set", "trail">>, <<"set", "stack_box">>,
                     <<"get", "stack_box">>, <<"set", "stack_label">>,
                     <<"get", "stack_label">>, <<"set", "stack_items">>,
                     <<"set", "stack_data">>, <<"create_maze_graph">>,
                     <<"play", 1000>>, <<"play", 1500>>, <<"play", 500>>,
                     <<"play", 500>>, <<"get", "stack_data">>,
                     <<"get", "stack_items">>, <<"push_stack", 0>> >>],
       [method |-> <<"anim_", "deep">>,
        events |-> << <<"get", "positions">>, <<"get", "trail">>,
                     <<"get", "edges">>, <<"move_explorer", 0, 1>>,
                     <<"play", 200>>, <<"get", "explorer">>,
                     <<"get", "explorer_glow">>, <<"play", 400>>,
                     <<"get", "nodes">>, <<"play", 200>>,
                     <<"get", "stack_data">>, <<"get", "stack_box">>,
                     <<"get", "stack_items">>, <<"push_stack", 1>>,
                     <<"play", 300>>, <<"move_explorer", 1, 2>>,
                     <<"play", 200>>, <<"play", 400>>, <<"play", 200>>,
                     <<"push_stack", 2>>, <<"play", 300>>,
                     <<"move_explorer", 2, 3>>, <<"play", 200>>,
                     <<"play", 400>>, <<"play", 200>>, <<"push_stack", 3>>,
                     <<"play", 300>> >>],
       [method |-> <<"anim_", "stuck">>,
        events |-> << <<"get", "positions">>, <<"get", "trail">>,
                     <<"get", "edges">>, <<"move_explorer", 3, 5>>,
                     <<"play", 200>>, <<"get", "explorer">>,
                     <<"get", "explorer_glow">>, <<"play", 400>>,
                     <<"get", "nodes">>, <<"play", 200>>,
                     <<"get", "stack_data">>, <<"get", "stack_box">>,
                     <<"get", "stack_items">>, <<"push_stack", 5>>,
                     <<"play", 300>>, <<"play", 500>>, <<"pop_stack">>,
                     <<"play", 300>>, <<"backtrack_explorer", 5, 3>>,
                     <<"play", 300>>, <<"play", 300>>, <<"play", 200>>,
                     <<"play", 300>>, <<"set", "dead_end_text">> >>],
       [method |-> <<"anim_", "try">>,
        events |-> << <<"get", "edges">>, <<"set_stroke", <<3, 6>>, "EXPLORER">>,
                     <<"play", 500>> >>],
       [method |-> <<"anim_", "found">>,
        events |-> << <<"get", "positions">>, <<"get", "trail">>,
                     <<"get", "edges">>, <<"move_explorer", 3, 6>>,
                     <<"play", 200>>, <<"get", "explorer">>,
                     <<"get", "explorer_glow">>, <<"play", 400>>,
                     <<"get", "stack_data">>, <<"get", "stack_box">>,
                     <<"get", "stack_items">>, <<"push_stack", 6>>,
                     <<"play", 300>>, <<"get", "nodes">>, <<"play", 800>>,
                     <<"play", 800>>, <<"set", "found_text">> >>],
       [method |-> <<"anim_", "takeaway">>,
        events |-> << <<"get", "found_text">>, <<"play", 300>>,
                     <<"get", "nodes">>, <<"get", "node_labels">>,
                     <<"get", "edges">>, <<"get", "explorer">>,
                     <<"get", "explorer_glow">>, <<"get", "trail">>,
                     <<"get", "stack_box">>, <<"get", "stack_label">>,
                     <<"get", "stack_items">>, <<"play", 500>>,
                     <<"play", 1000>>, <<"play", 1000>> >>] >>

\* The same for DijkstraV2Synced.  set_stroke and set_node_stroke stand for
\* the edge and node recolourings played by the action methods themselves,
\* path_edge for one iteration of the loop over path_edges in anim_18_path.
Events_DijkstraV2Synced ==
    << [method |-> <<"anim_", "01_hook">>,
        events |-> << <<"play", 2500>>, <<"set", "hook_text">> >>],
       [method |-> <<"anim_", "02_answer">>,
        events |-> << <<"get", "hook_text">>, <<"play", 1500>>, <<"wait", 500>>,
                     <<"play", 500>> >>],
       [method |-> <<"anim_", "03_graph">>,
        events |-> << <<"set", "positions">>, <<"set", "edges_data">>,
                     <<"set", "nodes">>, <<"set", "node_labels">>,
                     <<"get", "positions">>, <<"get", "nodes">>,
                     <<"get", "node_labels">>, <<"set", "edges">>,
                     <<"set", "weights">>, <<"get", "edges_data">>,
                     <<"get", "edges">>, <<"get", "weights">>,
                     <<"create_graph">>, <<"play", 1000>>, <<"play", 1500>>,
                     <<"play", 2000>>, <<"play", 1000>>, <<"play", 1000>>,
                     <<"set", "title">>, <<"set", "subtitle_labels">> >>],
       [method |-> <<"anim_", "04_problem">>,
        events |-> << <<"get", "nodes">>,
                     <<"set_node_stroke", "A", "NODE_START">>, <<"play", 500>>,
                     <<"play", 500>>, <<"get", "title">>,
                     <<"get", "subtitle_labels">>, <<"play", 1000>>,
                     <<"set", "start_label">> >>],
       [method |-> <<"anim_", "05_insight">>,
        events |-> << <<"play", 2000>>, <<"set", "insight_box">>,
                     <<"set", "insight_text">> >>],
       [method |-> <<"anim_", "06_why">>,
        events |-> << <<"get", "insight_box">>, <<"play", 2000>>,
                     <<"wait", 1000>>, <<"play", 500>> >>],
       [method |-> <<"anim_", "07_init">>,
        events |-> << <<"set", "distances">>, <<"set", "dist_mobjects">>,
                     <<"set", "table_group">>, <<"get", "distances">>,
                     <<"get", "dist_mobjects">>, <<"get", "table_group">>,
                     <<"create_distance_table">>, <<"play", 1000>>,
                     <<"play", 500>> >>],
       [method |-> <<"anim_", "08_begin">>,
        events |-> << <<"get", "edges">>, <<"highlight_edge", "A", "B">>,
                     <<"play", 300>>, <<"highlight_edge", "A", "C">>,
                     <<"play", 300>> >>],
       [method |-> <<"anim_", "09_step1">>,
        events |-> << <<"get", "dist_mobjects">>, <<"update_distance", "B", 4>>,
                     <<"play", 400>>, <<"get", "distances">>,
                     <<"update_distance", "C", 2>>, <<"play", 400>>,
                     <<"get", "edges">>,
                     <<"set_stroke", <<"A", "B">>, "EDGE_DEFAULT">>,
                     <<"set_stroke", <<"A", "C">>, "EDGE_DEFAULT">>,
                     <<"play", 300>> >>],
       [method |-> <<"anim_", "10_pick_c">>,
        events |-> << <<"get", "nodes">>, <<"current_node", "C">>,
                     <<"play", 400>>, <<"wait", 500>>, <<"visit_node", "C">>,
                     <<"play", 500>> >>],
       [method |-> <<"anim_", "11_from_c">>,
        events |-> << <<"get", "edges">>, <<"highlight_edge", "B", "C">>,
                     <<"play", 300>>, <<"get", "nodes">>, <<"play", 1000>>,
                     <<"set", "calc">> >>],
       [method |-> <<"anim_", "12_update_b">>,
        events |-> << <<"get", "dist_mobjects">>, <<"update_distance", "B", 3>>,
                     <<"play", 400>>, <<"get", "distances">>, <<"get", "calc">>,
                     <<"play", 300>>, <<"get", "edges">>,
                     <<"highlight_edge", "C", "D">>, <<"play", 300>>,
                     <<"update_distance", "D", 10>>, <<"play", 400>>,
                     <<"set_stroke", <<"B", "C">>, "EDGE_DEFAULT">>,
                     <<"set_stroke", <<"C", "D">>, "EDGE_DEFAULT">>,
                     <<"play", 300>> >>],
       [method |-> <<"anim_", "13_visit_b">>,
        events |-> << <<"get", "nodes">>, <<"current_node", "B">>,
                     <<"play", 400>>, <<"wait", 300>>, <<"visit_node", "B">>,
                     <<"play", 500>> >>],
       [method |-> <<"anim_", "14_from_b">>,
        events |-> << <<"get", "edges">>, <<"highlight_edge", "B", "D">>,
                     <<"play", 300>>, <<"get", "nodes">>, <<"play", 1000>>,
                     <<"get", "dist_mobjects">>, <<"update_distance", "D", 8>>,
                     <<"play", 400>>, <<"get", "distances">>, <<"play", 300>>,
                     <<"set_stroke", <<"B", "D">>, "EDGE_DEFAULT">>,
                     <<"play", 300>> >>],
       [method |-> <<"anim_", "15_visit_d">>,
        events |-> << <<"get", "nodes">>, <<"current_node", "D">>,
                     <<"play", 400>>, <<"wait", 300>>, <<"visit_node", "D">>,
                     <<"play", 500>>, <<"get", "edges">>,
                     <<"highlight_edge", "D", "E">>, <<"play", 300>>,
                     <<"get", "dist_mobjects">>, <<"update_distance", "E", 10>>,
                     <<"play", 400>>, <<"get", "distances">>,
                     <<"set_stroke", <<"D", "E">>, "EDGE_DEFAULT">>,
                     <<"play", 300>> >>],
       [method |-> <<"anim_", "16_visit_e">>,
        events |-> << <<"get", "nodes">>, <<"visit_node", "E">>, <<"play", 500>>,
                     <<"get", "table_group">>, <<"play", 800>>,
                     <<"set", "done_text">> >>],
       [method |-> <<"anim_", "17_result">>,
        events |-> << <<"get", "distances">>, <<"get", "dist_mobjects">>,
                     <<"play", 800>> >>],
       [method |-> <<"anim_", "18_path">>,
        events |-> << <<"get", "edges">>, <<"path_edge", "A", "C">>,
                     <<"play", 500>>, <<"path_edge", "B", "C">>,
                     <<"play", 500>>, <<"path_edge", "B", "D">>,
                     <<"play", 500>>, <<"path_edge", "D", "E">>,
                     <<"play", 500>>, <<"get", "insight_text">>,
                     <<"play", 800>> >>],
       [method |-> <<"anim_", "19_takeaway">>,
        events |-> << <<"get", "title">>, <<"get", "done_text">>,
                     <<"get", "start_label">>, <<"play", 500>>,
                     <<"play", 2000>>, <<"set", "takeaway">> >>],
       [method |-> <<"anim_", "20_complexity">>,
        events |-> << <<"get", "takeaway">>, <<"play", 2000>> >>] >>
Events(sc) ==
    CASE sc = "BinarySearchSynced" -> Events_BinarySearchSynced
      [] sc = "DFSSynced"          -> Events_DFSSynced
      [] sc = "DijkstraV2Synced"   -> Events_DijkstraV2Synced

\* What one action method executes.
EventsOf(sc, method) ==
    LET i == CHOOSE j \in 1..Len(Events(sc)) : Events(sc)[j].method = method
    IN  Events(sc)[i].events

IsPlay(ev) == ev[1] \in {"play", "wait"}

IsAccess(ev) == ev[1] \in {"get", "set"}

\* The run times of the play and wait calls of one action method.
RunTimes(sc, method) ==
    LET plays == SelectSeq(EventsOf(sc, method), IsPlay)
    IN  [i \in 1..Len(plays) |-> plays[i][2]]

RECURSIVE SumRunTimes(_, _)
SumRunTimes(rt, i) == IF i = 0 THEN 0 ELSE SumRunTimes(rt, i - 1) + rt[i]

\* Variant of StatedRunTime: the run_time and duration arguments are ignored
\* and every play and wait takes Manim's default of one second.
StatedRunTimeDefault(sc, method) == Len(RunTimes(sc, method)) * 1000

\* The time an action method takes when each of its play and wait calls
\* advances the renderer's clock by exactly its stated run time.
StatedRunTime(sc, method) ==
    SumRunTimes(RunTimes(sc, method), Len(RunTimes(sc, method)))

\* The attribute accesses of one action method.
Accesses(sc, method) == SelectSeq(EventsOf(sc, method), IsAccess)

\* self.edges_list of DFSSynced.create_maze_graph: the passages of the maze.
edges_list ==
    << <<0, 1>>, <<0, 4>>, <<1, 2>>, <<2, 3>>, <<3, 5>>, <<3, 6>>, <<4, 5>> >>

\* Variant of edges_data: the edge C-D weighs 3, so that A-C-D-E is shorter
\* than the path the animation shows.
edges_dataShortcut ==
    << <<"A", "B", 4>>, <<"A", "C", 2>>, <<"B", "C", 1>>,
       <<"B", "D", 5>>, <<"C", "D", 3>>, <<"D", "E", 2>> >>

\* self.edges_data of DijkstraV2Synced.create_graph: (a, b, weight).
edges_data ==
    << <<"A", "B", 4>>, <<"A", "C", 2>>, <<"B", "C", 1>>,
       <<"B", "D", 5>>, <<"C", "D", 8>>, <<"D", "E", 2>> >>

\* A distance table value: the string "∞" or a number.
Infinite == [inf |-> TRUE, val |-> 0]
Finite(n) == [inf |-> FALSE, val |-> n]

\* The scene object's data before any action method has run.  moves, pops,
\* updates, visits and path record the calls made, for the properties below.
NoData ==
    [ stack_data    |-> << >>,    \* DFSSynced.stack_data
      explorer      |-> -1,       \* the node self.explorer is drawn at
      explorer_glow |-> -1,       \* the node self.explorer_glow is drawn at
      stroke        |-> << >>,    \* the stroke colour of each self.edges[key]
      node_stroke   |-> << >>,    \* the stroke colour of each self.nodes[n]
      distances     |-> << >>,    \* DijkstraV2Synced.distances
      moves         |-> << >>,
      pops          |-> << >>,
      updates       |-> << >>,
      visits        |-> << >>,
      path          |-> << >>,
      raised        |-> FALSE ]   \* an exception left the method

\* key = (a, b) if (a, b) in self.edges else (b, a)
EdgeKey(s, a, b) ==
    IF << a, b >> \in DOMAIN s.stroke THEN << a, b >> ELSE << b, a >>

\* self.play(self.edges[key].animate.set_stroke(colour, ...))
SetStroke(s, key, colour) ==
    IF key \in DOMAIN s.stroke
    THEN [s EXCEPT !.stroke[key] = colour]
    ELSE [s EXCEPT !.raised = TRUE]

\* The keys of self.positions in DFSSynced.create_maze_graph.
MazeNodes == 0..6

\* DFSSynced.create_maze_graph: the nodes are drawn (the start with the
\* stroke VISITED, the exit GOAL, the others WALL), the edges are drawn as
\* walls, the explorer and its glow are placed at positions[0], the stack is
\* empty.
CreateMazeGraph(s) ==
    [s EXCEPT !.node_stroke = [n \in MazeNodes |->
                                  IF n = 0 THEN "VISITED"
                                  ELSE IF n = 6 THEN "GOAL" ELSE "WALL"],
              !.stroke = [e \in {edges_list[i] : i \in 1..Len(edges_list)} |-> "WALL"],
              !.explorer = 0,
              !.explorer_glow = 0,
              !.stack_data = << >>]

\* DFSSynced.push_stack
PushStack(s, node_id) == [s EXCEPT !.stack_data = Append(@, node_id)]

\* DFSSynced.pop_stack: if self.stack_data: self.stack_data.pop()
PopStack(s) ==
    [s EXCEPT !.pops = Append(@, Len(s.stack_data)),
              !.stack_data = IF s.stack_data # << >>
                             THEN SubSeq(@, 1, Len(@) - 1) ELSE @]

\* DFSSynced.move_explorer: the edge, if there is one, is coloured; the
\* explorer and its glow move to positions[to_node]; the node reached gets
\* the stroke VISITED unless it is the start or the exit.
MoveExplorer(s, from_node, to_node) ==
    LET edge_key == EdgeKey(s, from_node, to_node)
        t == IF edge_key \in DOMAIN s.stroke
             THEN [s EXCEPT !.stroke[edge_key] = "VISITED"] ELSE s
        u == IF to_node \notin {0, 6}
             THEN [t EXCEPT !.node_stroke[to_node] = "VISITED"] ELSE t
    IN  IF {from_node, to_node} \subseteq DOMAIN s.node_stroke
        THEN [u EXCEPT !.explorer = to_node,
                       !.explorer_glow = to_node,
                       !.moves = Append(@, [call |-> "move_explorer",
                                            from |-> from_node, to |-> to_node,
                                            at |-> s.explorer])]
        ELSE [s EXCEPT !.raised = TRUE]

\* DFSSynced.backtrack_explorer: its second self.play is given two animations
\* of self.explorer (animate.move_to and animate.set_color) besides the one of
\* the glow.  Manim builds every .animate animation of a mobject from the
\* target generated last, here the recoloured copy at the old position, and
\* documents several animations of one mobject in one play as unsupported:
\* the glow arrives at positions[to_node], the explorer is recoloured where
\* it is.
BacktrackExplorer(s, from_node, to_node) ==
    IF {from_node, to_node} \subseteq DOMAIN s.node_stroke
    THEN [s EXCEPT !.explorer_glow = to_node,
                   !.moves = Append(@, [call |-> "backtrack_explorer",
                                        from |-> from_node, to |-> to_node,
                                        at |-> s.explorer])]
    ELSE [s EXCEPT !.raised = TRUE]

\* The keys of self.positions in DijkstraV2Synced.create_graph.
Nodes == {"A", "B", "C", "D", "E"}

\* DijkstraV2Synced.create_graph: white circles, edges in the default colour.
CreateGraph(s) ==
    [s EXCEPT !.stroke = [e \in {<< edges_data[i][1], edges_data[i][2] >> :
                                    i \in 1..Len(edges_data)} |-> "EDGE_DEFAULT"],
              !.node_stroke = [n \in Nodes |-> "WHITE"]]

\* DijkstraV2Synced.create_distance_table
CreateDistanceTable(s) ==
    [s EXCEPT !.distances = [n \in Nodes |-> IF n = "A" THEN Finite(0) ELSE Infinite]]

\* The edges drawn in the active colour.
ActiveEdges(s) == {key \in DOMAIN s.stroke : s.stroke[key] = "EDGE_ACTIVE"}

\* Variant of UpdateDistance: the table's text is changed but self.distances
\* keeps the old value.
UpdateDistanceNoStore(s, node, new_dist) ==
    IF node \in DOMAIN s.distances
    THEN [s EXCEPT !.updates = Append(@, [node |-> node, new |-> new_dist,
                                          distances |-> s.distances,
                                          active |-> ActiveEdges(s),
                                          node_stroke |-> s.node_stroke])]
    ELSE [s EXCEPT !.raised = TRUE]

\* DijkstraV2Synced.update_distance: self.distances[node] = new_dist
UpdateDistance(s, node, new_dist) ==
    IF node \in DOMAIN s.distances
    THEN [s EXCEPT !.distances[node] = Finite(new_dist),
                   !.updates = Append(@, [node |-> node, new |-> new_dist,
                                          distances |-> s.distances,
                                          active |-> ActiveEdges(s),
                                          node_stroke |-> s.node_stroke])]
    ELSE [s EXCEPT !.raised = TRUE]

\* DijkstraV2Synced.highlight_edge
HighlightEdge(s, a, b) == SetStroke(s, EdgeKey(s, a, b), "EDGE_ACTIVE")

\* self.play(..., self.nodes[name].animate.set_stroke(colour))
SetNodeStroke(s, name, colour) ==
    IF name \in DOMAIN s.node_stroke
    THEN [s EXCEPT !.node_stroke[name] = colour]
    ELSE [s EXCEPT !.raised = TRUE]

\* DijkstraV2Synced.current_node
CurrentNode(s, name) == SetNodeStroke(s, name, "NODE_CURRENT")

\* Variant of VisitNode: the node keeps the colour current_node gave it.
VisitNodeUnmarked(s, name) ==
    [s EXCEPT !.visits = Append(@, [node |-> name,
                                    distances |-> s.distances,
                                    node_stroke |-> s.node_stroke])]

\* DijkstraV2Synced.visit_node
VisitNode(s, name) ==
    LET t == SetNodeStroke(s, name, "NODE_VISITED")
    IN  [t EXCEPT !.visits = Append(@, [node |-> name,
                                        distances |-> s.distances,
                                        node_stroke |-> s.node_stroke])]

\* anim_18_path, one iteration:
\* key = edge if edge in self.edges else (edge[1], edge[0]); the edge is
\* drawn in the path colour.
PathEdge(s, a, b) ==
    LET key == EdgeKey(s, a, b)
        t == SetStroke(s, key, "EDGE_PATH")
    IN  [t EXCEPT !.path = Append(@, key)]

\* One call on the data of the scene object.
Call(op, s) ==
    CASE op[1] = "create_maze_graph"     -> CreateMazeGraph(s)
      [] op[1] = "push_stack"            -> PushStack(s, op[2])
      [] op[1] = "pop_stack"             -> PopStack(s)
      [] op[1] = "move_explorer"         -> MoveExplorer(s, op[2], op[3])
      [] op[1] = "backtrack_explorer"    -> BacktrackExplorer(s, op[2], op[3])
      [] op[1] = "set_stroke"            -> SetStroke(s, op[2], op[3])
      [] op[1] = "create_graph"          -> CreateGraph(s)
      [] op[1] = "create_distance_table" -> CreateDistanceTable(s)
      [] op[1] = "update_distance"       -> UpdateDistance(s, op[2], op[3])
      [] op[1] = "highlight_edge"        -> HighlightEdge(s, op[2], op[3])
      [] op[1] = "set_node_stroke"       -> SetNodeStroke(s, op[2], op[3])
      [] op[1] = "current_node"          -> CurrentNode(s, op[2])
      [] op[1] = "visit_node"            -> VisitNode(s, op[2])
      [] op[1] = "path_edge"             -> PathEdge(s, op[2], op[3])

\* The scene object after the events ev[i..] of a method.  st.attrs are the
\* attributes assigned, st.data the object's data, st.clock the run time
\* played so far.  An assignment adds the attribute's name; a read of a name
\* that is not assigned raises AttributeError, a missing edge or node
\* KeyError: the exception ends the method there.
RECURSIVE AfterEvents(_, _, _)
AfterEvents(ev, i, st) ==
    IF i > Len(ev) \/ st.data.raised THEN st
    ELSE AfterEvents(ev, i + 1,
             CASE ev[i][1] = "set" ->
                      [st EXCEPT !.attrs = @ \cup {ev[i][2]}]
               [] ev[i][1] = "get" ->
                      IF ev[i][2] \in st.attrs THEN st
                      ELSE [st EXCEPT !.data.raised = TRUE]
               [] IsPlay(ev[i]) ->
                      [st EXCEPT !.clock = @ + ev[i][2]]
               [] OTHER ->
                      [st EXCEPT !.data = Call(ev[i], st.data)])


\* The rendering time an action (anim_func) may take besides its stated run
\* time (frame quantisation, a slow renderer): 3.2 s is shorter than
\* all but three targets, 4.84 s equals two targets of the Dijkstra table,
\* 6.0 s is longer than most targets.
ActionTimes == {3200, 4840, 6000}

\* construct reaches its next self.segment(seg_id, anim_func) call; segment
\* looks up the target, reads the clock and calls anim_func.
CallSegment ==
    /\ prog = "scene"
    /\ spc = "construct"
    /\ k <= Len(ConstructCalls(scene))
    /\ LET c == ConstructCalls(scene)[k]
       IN  /\ seg_id' = c.id
           /\ target' = Target(TimingEntry(scene, c.id))
    /\ start' = time
    /\ invoked' = Append(invoked, seg_id')
    /\ spc' = "anim"
    /\ UNCHANGED << prog, scene, k, time, elapsed, waited, animEnd, sumMax,
                    overran, padded, exact >>
    /\ UNCHANGED objVars
    /\ UNCHANGED audioVars

\* anim_func() runs: its play and wait calls advance the renderer's clock,
\* its reads and assignments of self.<name> go to the scene object, its
\* helper calls change the object's data.  An AttributeError or KeyError
\* leaves the method, segment and construct where it is raised, with the
\* clock advanced by the plays made before it.
AnimFunc ==
    /\ prog = "scene"
    /\ spc = "anim"
    /\ LET method == ConstructCalls(scene)[k].method
           stated == StatedRunTime(scene, method)
           out    == AfterEvents(EventsOf(scene, method), 1,
                                 [attrs |-> attrs, data |-> self, clock |-> 0])
       IN  /\ attrs' = out.attrs
           /\ self' = out.data
           /\ IF out.data.raised
              THEN /\ time' = time + out.clock
                   /\ exact' = exact
                   /\ spc' = "raised"
              ELSE /\ \E e \in ActionTimes \cup {stated} :
                         /\ time' = time + e
                         /\ exact' = (exact /\ e = stated)
                   /\ spc' = "pad"
    /\ animEnd' = time'
    /\ UNCHANGED << prog, scene, k, seg_id, target, start, elapsed, waited,
                    invoked, sumMax, overran, padded >>
    /\ UNCHANGED audioVars

\* elapsed = ...; if elapsed < target: self.wait(target - elapsed); return
Pad ==
    /\ prog = "scene"
    /\ spc = "pad"
    /\ elapsed' = Elapsed(time, start)
    /\ waited' = PadWait(target, elapsed')
    /\ time' = time + waited'
    /\ sumMax' = sumMax + Max(elapsed', target)
    /\ overran' = (overran \/ elapsed' > target)
    /\ padded' = (padded \/ elapsed' < target)
    /\ k' = k + 1
    /\ spc' = "construct"
    /\ UNCHANGED << prog, scene, seg_id, target, start, animEnd, invoked,
                    exact >>
    /\ UNCHANGED objVars
    /\ UNCHANGED audioVars

\* construct returns after its last segment call.
ConstructReturn ==
    /\ prog = "scene"
    /\ spc = "construct"
    /\ k > Len(ConstructCalls(scene))
    /\ spc' = "done"
    /\ UNCHANGED << prog, scene, k, time, seg_id, target, start, elapsed, waited,
                    animEnd, invoked, sumMax, overran, padded, exact >>
    /\ UNCHANGED objVars
    /\ UNCHANGED audioVars

(***************************************************************************)
(* The two programs                                                        *)
(***************************************************************************)

InitAudioVars ==
    /\ example \in Examples
    /\ \E n \in 1..MaxSegs : script = SubSeq(SCRIPT(example), 1, n)
    /\ pause = Pause(example)
    /\ apc = "synth"
    /\ clips = << >>
    /\ measured = << >>
    /\ timing = << >>
    /\ cumulative = 0
    /\ total = -1
    /\ timing_json = << >>
    /\ silence_mp3 = FALSE
    /\ concat_txt = << >>
    /\ full_mp3 = FALSE
    /\ outstanding = {}
    /\ failures = << >>
    /\ offsets = << >>

IdleAudioVars ==
    /\ example = "binary_search"
    /\ script = << >>
    /\ pause = 0
    /\ apc = "idle"
    /\ clips = << >>
    /\ measured = << >>
    /\ timing = << >>
    /\ cumulative = 0
    /\ total = -1
    /\ timing_json = << >>
    /\ silence_mp3 = FALSE
    /\ concat_txt = << >>
    /\ full_mp3 = FALSE
    /\ outstanding = {}
    /\ failures = << >>
    /\ offsets = << >>

InitSceneVars ==
    /\ scene \in Scenes
    /\ spc = "construct"
    /\ k = 1
    /\ time = 0
    /\ seg_id = ""
    /\ target = 0
    /\ start = 0
    /\ elapsed = 0
    /\ waited = 0
    /\ animEnd = 0
    /\ invoked = << >>
    /\ sumMax = 0
    /\ overran = FALSE
    /\ padded = FALSE
    /\ exact = TRUE
    /\ attrs = {}
    /\ self = NoData

IdleSceneVars ==
    /\ scene = "BinarySearchSynced"
    /\ spc = "idle"
    /\ k = 1
    /\ time = 0
    /\ seg_id = ""
    /\ target = 0
    /\ start = 0
    /\ elapsed = 0
    /\ waited = 0
    /\ animEnd = 0
    /\ invoked = << >>
    /\ sumMax = 0
    /\ overran = FALSE
    /\ padded = FALSE
    /\ exact = TRUE
    /\ attrs = {}
    /\ self = NoData

Init ==
    \/ prog = "audio" /\ InitAudioVars /\ IdleSceneVars
    \/ prog = "scene" /\ IdleAudioVars /\ InitSceneVars

Next ==
    \/ Synthesize
    \/ SaveEnds
    \/ Probe
    \/ SaveTiming
    \/ MakeSilence
    \/ WriteConcat
    \/ MakeFull
    \/ CallSegment
    \/ AnimFunc
    \/ Pad
    \/ ConstructReturn

Spec == Init /\ [][Next]_vars

(***************************************************************************)
(* Properties of the timing manifest                                       *)
(***************************************************************************)

Abs(x) == IF x >= 0 THEN x ELSE 0 - x

\* d_1 + ... + d_i
RECURSIVE SumSeq(_, _)
SumSeq(s, i) == IF i = 0 THEN 0 ELSE SumSeq(s, i - 1) + s[i]

\* The sum over j <= i of (d_j + p), from the unrounded measured durations.
OffsetAfter(i) == SumSeq(measured, i) + i * pause

\* r is x rounded to 2 decimals: a whole number of hundredths nearest to x.
IsRounding2(r, x) == r % 10 = 0 /\ Abs(r - x) <= 5

\* timing.json has been written by this run.
ManifestWritten == prog = "audio" /\ Len(timing_json) > 0

Manifest == timing_json[1]

\* C1: the manifest total equals the sum of the measured durations plus
\* (n-1) pauses: no pause is counted after the last segment.
C1_TotalHasNoTrailingPause ==
    ManifestWritten =>
        Manifest.total = SumSeq(measured, Len(measured)) + (Len(measured) - 1) * pause

\* C2: segment i's start is the 2-decimal rounding of the sum over j < i of
\* (d_j + p), taken over the unrounded durations.
C2_StartIsRoundedOffset ==
    prog = "audio" =>
        \A i \in 1..Len(timing) : IsRounding2(timing[i].start, OffsetAfter(i - 1))

\* Three clips of 1.004 s: the third start is 3.008 rounded, not the sum of
\* the recorded 1.00 s durations.
C2_Witness ==
    /\ prog = "audio"
    /\ Len(timing) = 3
    /\ measured = << 1004, 1004, 1004 >>
    /\ timing[3].start = 2 * 1004 + 2 * pause + 2

\* C3: the first start is 0 and every later recorded start equals the
\* recorded end of the segment before it.
C3_StartIsPreviousEnd ==
    (prog = "audio" /\ Len(timing) > 0) =>
        /\ timing[1].start = 0
        /\ \A i \in 2..Len(timing) : timing[i].start = timing[i - 1].end

\* C4 as stated: in every record, end = start + duration + pause on the
\* recorded 2-decimal values.
C4_EndIsStartPlusDurationPlusPause ==
    prog = "audio" =>
        \A i \in 1..Len(timing) :
            timing[i].end = timing[i].start + timing[i].duration + pause

\* C4 amended: the recorded end is the 2-decimal rounding of the unrounded
\* offset plus the unrounded duration plus the pause; it is within 0.01 of
\* recorded start + recorded duration + pause, and equal to it when no
\* duration measured so far has more than 2 decimal digits.
C4_EndIsRoundedWindowEnd ==
    prog = "audio" =>
        \A i \in 1..Len(timing) :
            /\ IsRounding2(timing[i].end, OffsetAfter(i - 1) + measured[i] + pause)
            /\ Abs(timing[i].end - (timing[i].start + timing[i].duration + pause)) <= 10
            /\ (\A j \in 1..i : measured[j] % 10 = 0) =>
                   timing[i].end = timing[i].start + timing[i].duration + pause

\* Two clips of 1.004 s: the second record's end is 0.01 above its
\* start + duration + pause.
C4_Witness ==
    /\ prog = "audio"
    /\ Len(timing) >= 2
    /\ measured[1] = 1004 /\ measured[2] = 1004
    /\ timing[2].end = timing[2].start + timing[2].duration + pause + 10

\* C5: a single-segment run gives start = 0, end = d1 and total = d1.
C5_SingleSegmentHasNoPause ==
    (ManifestWritten /\ Len(script) = 1) =>
        /\ Manifest.segments[1].start = 0
        /\ IsRounding2(Manifest.segments[1].end, measured[1])
        /\ Manifest.total = measured[1]

\* The run of the scenario: ids 01_hook, 02_answer, pause 0.5, clips of
\* 3.02 s and 2.07 s.
C6_Scenario ==
    /\ ManifestWritten
    /\ Len(script) = 2
    /\ script[1].id = "01_hook" /\ script[2].id = "02_answer"
    /\ pause = 500
    /\ measured = << 3020, 2070 >>

\* C6: that run records {start 0, duration 3.02, end 3.52} and
\* {start 3.52, duration 2.07, end 6.09}, and total 6.09.
C6_BinarySearchScenario ==
    C6_Scenario =>
        /\ Len(Manifest.segments) = 2
        /\ Manifest.segments[1].id = "01_hook"
        /\ Manifest.segments[1].start = 0
        /\ Manifest.segments[1].duration = 3020
        /\ Manifest.segments[1].end = 3520
        /\ Manifest.segments[2].id = "02_answer"
        /\ Manifest.segments[2].start = 3520
        /\ Manifest.segments[2].duration = 2070
        /\ Manifest.segments[2].end = 6090
        /\ Manifest.total = 6090

C6_Witness == C6_Scenario /\ example = "binary_search" /\ apc = "done"

(***************************************************************************)
(* Properties of the playback driver                                       *)
(***************************************************************************)

\* A segment call has just returned to construct; target, start, elapsed,
\* waited and animEnd are those of that call.
SegmentReturned == prog = "scene" /\ spc \in {"construct", "done"} /\ k > 1

\* The targets of the first n segment calls of construct, summed.
RECURSIVE SumTargets(_, _)
SumTargets(sc, n) ==
    IF n = 0 THEN 0
    ELSE SumTargets(sc, n - 1) + Target(TimingEntry(sc, ConstructCalls(sc)[n].id))

\* C7: when the action ends before the target, the driver waits exactly
\* target - elapsed, so the segment call consumes exactly target of rendering
\* time (a target of 5.0 s and an action of 3.2 s give a wait of 1.8 s).
C7_PadsExactlyToTarget ==
    /\ (SegmentReturned /\ elapsed < target) =>
           /\ waited = target - elapsed
           /\ time - start = target
    /\ PadWait(5000, 3200) = 1800

C7_Witness == SegmentReturned /\ elapsed < target /\ waited > 0

\* C8: when the action takes at least the target, the driver adds no wait and
\* returns at once, and the next action starts at the moment the overrunning
\* action ended.
C8_OverrunAddsNoWait ==
    /\ (SegmentReturned /\ elapsed >= target) =>
           /\ waited = 0
           /\ time = animEnd
    /\ (prog = "scene" /\ spc = "anim" /\ k > 1
          /\ elapsed >= Target(TimingEntry(scene, ConstructCalls(scene)[k - 1].id))) =>
           start = animEnd
    /\ PadWait(5000, 6000) = 0

\* The action after an overrunning one has been started.
C8_Witness ==
    /\ prog = "scene" /\ spc = "anim" /\ k > 1
    /\ elapsed > Target(TimingEntry(scene, ConstructCalls(scene)[k - 1].id))
    /\ start = animEnd

\* C9: the rendering time after any number of segment calls is the sum of
\* max(e_i, t_i); each call consumes max of its own elapsed and target
\* whatever happened before; and once any action has overrun, the run is
\* strictly longer than the sum of the targets.
C9_TotalIsSumOfMax ==
    SegmentReturned =>
        /\ time = sumMax
        /\ time - start = Max(elapsed, target)
        /\ overran => time > SumTargets(scene, k - 1)
        /\ ~overran => time = SumTargets(scene, k - 1)

\* A finished run in which a segment with slack follows an overrun.
C9_Witness ==
    /\ prog = "scene" /\ spc = "done"
    /\ overran /\ padded
    /\ elapsed < target
    /\ time > SumTargets(scene, Len(ConstructCalls(scene)))

\* C10: construct invokes the action of every TIMING entry exactly once, in
\* table order, and an action starts only when every earlier segment call
\* has returned.
C10_ActionsInTableOrder ==
    prog = "scene" =>
        /\ Len(invoked) <= Len(TimingKeys(scene))
        /\ invoked = SubSeq(TimingKeys(scene), 1, Len(invoked))
        /\ Len(invoked) = IF spc \in {"anim", "pad"} THEN k ELSE k - 1
        /\ spc = "done" => invoked = TimingKeys(scene)

C10_Witness ==
    /\ prog = "scene" /\ spc = "done"
    /\ scene = "DijkstraV2Synced"
    /\ Len(invoked) = 20

(***************************************************************************)
(* Properties of a run of generate_audio: failures, order, files           *)
(***************************************************************************)

\* No output file other than the clips has been written.
NoOutputWritten ==
    /\ timing_json = << >>
    /\ ~silence_mp3
    /\ concat_txt = << >>
    /\ ~full_mp3

\* C11: when the synthesis raises or the probed duration cannot be parsed
\* for segment k, the run aborts there: segment k is not tried again, no
\* later segment is synthesized or probed, and timing.json, silence.mp3,
\* concat.txt and full.mp3 are never written.
C11_SegmentFailureAborts ==
    (prog = "audio" /\ Len(failures) > 0
       /\ failures[1].tool \in {"edge_tts", "ffprobe"}) =>
        LET f == failures[1]
        IN  /\ apc = "raised"
            /\ Len(failures) = 1
            /\ outstanding = {}
            /\ Len(clips) = IF f.tool = "edge_tts" THEN f.seg - 1 ELSE f.seg
            /\ Len(measured) = f.seg - 1
            /\ Len(timing) = f.seg - 1
            /\ NoOutputWritten

\* The probe of the second segment failed after a complete first segment.
C11_Witness ==
    /\ prog = "audio"
    /\ apc = "raised"
    /\ failures = << [tool |-> "ffprobe", seg |-> 2] >>
    /\ Len(clips) = 2 /\ Len(timing) = 1

\* C12: generate_audio does not return normally after any external media
\* tool invocation (ffprobe, ffmpeg silence, ffmpeg concat) has failed.
C12_ToolFailureIsFatal ==
    (prog = "audio" /\ apc = "done") => failures = << >>

\* C13: every number of the manifest -- each start, duration and end, and
\* the total -- is a whole number of hundredths.
C13_AllValuesRounded ==
    ManifestWritten =>
        /\ \A i \in 1..Len(Manifest.segments) :
              /\ Manifest.segments[i].start % 10 = 0
              /\ Manifest.segments[i].duration % 10 = 0
              /\ Manifest.segments[i].end % 10 = 0
        /\ Manifest.total % 10 = 0

\* C15: when every play and wait so far has taken exactly its stated run
\* time, the action of each segment begins at that segment's TIMING start and
\* takes no more than its target, and the finished scene has lasted to the
\* end of the last TIMING entry: 68.54 s, 39.41 s and 112.22 s.
C15_DurationMatchesTable ==
    (prog = "scene" /\ exact) =>
        /\ spc \in {"anim", "pad"} => start = TimingEntry(scene, seg_id).start
        /\ spc = "pad" => Elapsed(time, start) <= target
        /\ SegmentReturned => elapsed <= target /\ ~overran
        /\ spc = "done" =>
              /\ time = TIMING(scene)[Len(TIMING(scene))].end
              /\ time = (CASE scene = "BinarySearchSynced" -> 68540
                           [] scene = "DFSSynced"          -> 39410
                           [] scene = "DijkstraV2Synced"   -> 112220)

\* DijkstraV2Synced has finished, all twenty actions having taken their
\* stated run times and been padded.
C15_Witness ==
    /\ prog = "scene"
    /\ scene = "DijkstraV2Synced"
    /\ spc = "done"
    /\ exact
    /\ padded
    /\ Len(invoked) = 20
    /\ time = 112220

\* C16: at most one synthesis is in flight; the synthesis of segment i has
\* ended when its probe starts, and the probe of segment i has ended when
\* the synthesis of segment i+1 starts.
C16_OneSynthesisAtATime ==
    prog = "audio" =>
        /\ Cardinality(outstanding) <= 1
        /\ apc = "probe" =>
              /\ outstanding = {}
              /\ Len(clips) = Len(measured) + 1
        /\ apc = "saving" =>
              /\ outstanding = {Len(measured) + 1}
              /\ Len(clips) = Len(measured)
        /\ apc \notin {"saving"} => outstanding = {}

\* The second synthesis is in flight, after the first probe.
C16_Witness ==
    /\ prog = "audio"
    /\ apc = "saving"
    /\ outstanding = {2}
    /\ Len(measured) = 1

\* concat.txt has been written by this run.
ConcatWritten == prog = "audio" /\ apc \in {"full", "done"}

\* C17: the playlist lists the clips in SCRIPT order with exactly one
\* silence entry between two consecutive clips and none before the first or
\* after the last: n clip entries and n-1 silence entries.
C17_PlaylistAlternates ==
    ConcatWritten =>
        LET n == Len(script)
        IN  /\ Len(concat_txt) = 2 * n - 1
            /\ \A i \in 1..n : concat_txt[2 * i - 1] = script[i].id
            /\ \A i \in 1..(n - 1) : concat_txt[2 * i] = "silence"
            /\ Cardinality({j \in 1..Len(concat_txt) : concat_txt[j] = "silence"}) = n - 1

C17_Witness ==
    /\ ConcatWritten
    /\ Len(script) = 3
    /\ concat_txt = << script[1].id, "silence", script[2].id, "silence", script[3].id >>

\* C18: timing.json is written at most once, only after every segment has
\* been synthesized and probed, and before silence.mp3, concat.txt and
\* full.mp3 are produced; once written it is not changed or removed.
C18_ManifestWrittenOnce ==
    /\ [](prog = "audio" =>
            /\ Len(timing_json) <= 1
            /\ Len(timing_json) = 1 =>
                  /\ Len(clips) = Len(script)
                  /\ Len(measured) = Len(script)
                  /\ Len(timing_json[1].segments) = Len(script)
            /\ (silence_mp3 \/ concat_txt # << >> \/ full_mp3
                  \/ apc \in {"concat", "full", "done"}) => Len(timing_json) = 1)
    /\ [][Len(timing_json) = 1 => timing_json' = timing_json]_vars

C18_Witness ==
    /\ prog = "audio"
    /\ apc = "silence"
    /\ Len(timing_json) = 1
    /\ Len(script) = 3
    /\ ~silence_mp3 /\ concat_txt = << >> /\ ~full_mp3

(***************************************************************************)
(* The TIMING tables; the manifest against the concatenated audio          *)
(***************************************************************************)

\* C19: the TIMING table of each scene (whichever is rendered) starts at 0,
\* every later entry starts where the entry before it ends, and every entry
\* has end > start.
C19_TimingTablesContiguous ==
    prog = "scene" =>
        LET T == TIMING(scene)
        IN  /\ T[1].start = 0
            /\ \A i \in 2..Len(T) : T[i].start = T[i - 1].end
            /\ \A i \in 1..Len(T) : T[i].end > T[i].start

\* The last entry of the longest table is in use.
C19_Witness ==
    /\ prog = "scene"
    /\ scene = "DijkstraV2Synced"
    /\ spc = "anim"
    /\ seg_id = "20_complexity"
    /\ target = 112220 - 106870

\* The length of a playlist entry: a silence lasts `pause`, a clip as long
\* as ffprobe measured it.
EntryLength(line) ==
    IF line = "silence" THEN pause
    ELSE measured[CHOOSE i \in 1..Len(script) : script[i].id = line]

\* The summed length of the first n playlist entries.
RECURSIVE PlaylistLength(_, _)
PlaylistLength(lines, n) ==
    IF n = 0 THEN 0 ELSE PlaylistLength(lines, n - 1) + EntryLength(lines[n])

\* Where clip i begins in the concatenated audio.
ClipPosition(i) ==
    LET j == CHOOSE x \in 1..Len(concat_txt) : concat_txt[x] = script[i].id
    IN  PlaylistLength(concat_txt, j - 1)

AudioLength == PlaylistLength(concat_txt, Len(concat_txt))

\* C20 as stated: the unrounded start offset of segment i is the position of
\* clip i in the playlist, and the last segment's end and the manifest total
\* exceed the length of the concatenated audio by exactly one pause.
C20_OffsetsMatchPlaylist ==
    ConcatWritten =>
        /\ \A i \in 1..Len(script) : offsets[i] = ClipPosition(i)
        /\ Manifest.segments[Len(script)].end = AudioLength + pause
        /\ Manifest.total = AudioLength + pause

\* C20 amended: the offsets match the playlist positions, the total exceeds
\* the audio length by exactly one pause, and the last segment's recorded
\* end, round(cumulative + duration + pause, 2), is a whole number of
\* hundredths at most half a hundredth away from that total.  It need not
\* be round(total, 2): when the total lies halfway between two hundredths
\* the two roundings can fall on different sides.
C20_OffsetsMatchPlaylistEndNearTotal ==
    ConcatWritten =>
        LET end == Manifest.segments[Len(script)].end
        IN  /\ \A i \in 1..Len(script) : offsets[i] = ClipPosition(i)
            /\ end % 10 = 0
            /\ Abs(end - (AudioLength + pause)) <= 5
            /\ Manifest.total = AudioLength + pause

\* Two clips whose total of 3.515 lies halfway between two hundredths: the
\* recorded end is 3.51, the lower one.
C20_Witness ==
    /\ ConcatWritten
    /\ measured = << 828, 1687 >>
    /\ offsets[2] = ClipPosition(2)
    /\ Manifest.total = AudioLength + pause
    /\ Manifest.total = 3515
    /\ Manifest.segments[2].end = 3510

\* The audio script that belongs to a scene (the two files of one example).
ExampleOf(sc) ==
    CASE sc = "BinarySearchSynced" -> "binary_search"
      [] sc = "DFSSynced"          -> "dfs"
      [] sc = "DijkstraV2Synced"   -> "dijkstra_v2"

\* The ids of a SCRIPT list, in list order.
ScriptIds(ex) == [i \in 1..Len(SCRIPT(ex)) |-> SCRIPT(ex)[i].id]

\* The elements of a sequence are pairwise distinct.
Distinct(seq) ==
    \A i, j \in 1..Len(seq) : seq[i] = seq[j] => i = j

\* C21: the ids of a scene's TIMING table are exactly the ids of the SCRIPT
\* list of the same example, in the same order, and the ids of each list are
\* pairwise distinct.
C21_TimingIdsAreScriptIds ==
    prog = "scene" =>
        /\ TimingKeys(scene) = ScriptIds(ExampleOf(scene))
        /\ Distinct(TimingKeys(scene))
        /\ Distinct(ScriptIds(ExampleOf(scene)))

\* The Dijkstra scene has finished and has invoked one segment per SCRIPT
\* entry of dijkstra_v2_audio.py, in SCRIPT order.
C21_Witness ==
    /\ prog = "scene"
    /\ scene = "DijkstraV2Synced"
    /\ spc = "done"
    /\ invoked = ScriptIds("dijkstra_v2")
    /\ Len(invoked) = 20

\* C22: in DijkstraV2Synced every TIMING id has a method anim_<id>, so the
\* hasattr guard skips nothing: the segments called so far are the TIMING ids
\* in order, each has been waited out to at least its window, and the
\* finished scene has played all 20 of them.
C22_NoSegmentSkipped ==
    (prog = "scene" /\ scene = "DijkstraV2Synced") =>
        /\ \A i \in 1..Len(TimingKeys(scene)) :
               HasAttr(MethodName(TimingKeys(scene)[i]))
        /\ Len(invoked) <= Len(TimingKeys(scene))
        /\ invoked = SubSeq(TimingKeys(scene), 1, Len(invoked))
        /\ spc = "construct" =>
              /\ Len(invoked) = k - 1
              /\ k > 1 => time >= TIMING(scene)[k - 1].end
        /\ spc = "done" =>
              /\ Len(invoked) = 20
              /\ time >= TIMING(scene)[20].end

\* The Dijkstra scene has finished with every action shorter than its
\* window: all 20 segments were called and padded to the table's end.
C22_Witness ==
    /\ prog = "scene"
    /\ scene = "DijkstraV2Synced"
    /\ spc = "done"
    /\ ~overran
    /\ padded
    /\ Len(invoked) = 20
    /\ invoked[8] = "08_begin"
    /\ time = TIMING(scene)[20].end

\* C23: no action method reads an instance attribute before it is assigned:
\* no AttributeError is raised, and every read of the method about to run
\* finds its attribute assigned by an earlier method or earlier in the same
\* method.
C23_NoReadBeforeSet ==
    prog = "scene" =>
        /\ spc # "raised"
        /\ spc = "anim" =>
              LET acc == Accesses(scene, ConstructCalls(scene)[k].method)
              IN  \A i \in 1..Len(acc) :
                     acc[i][1] = "get" =>
                         \/ acc[i][2] \in attrs
                         \/ \E j \in 1..(i - 1) : acc[j] = << "set", acc[i][2] >>

\* BinarySearchSynced is about to run anim_step2, which reads self.question
\* and self.mid_pointer assigned by anim_step1.
C23_Witness ==
    /\ prog = "scene"
    /\ scene = "BinarySearchSynced"
    /\ spc = "anim"
    /\ seg_id = "07_step2"
    /\ << "get", "question" >> = Accesses(scene, ConstructCalls(scene)[k].method)[1]
    /\ {"question", "mid_pointer", "boxes"} \subseteq attrs

\* a and b are joined by a passage of the maze.
IsMazeEdge(a, b) ==
    \E i \in 1..Len(edges_list) :
        edges_list[i] = << a, b >> \/ edges_list[i] = << b, a >>

\* st is a simple path from node 0 along passages of the maze.
IsSimplePathFromStart(st) ==
    /\ st # << >>
    /\ st[1] = 0
    /\ Distinct(st)
    /\ \A i \in 1..(Len(st) - 1) : IsMazeEdge(st[i], st[i + 1])

\* C24: in DFSSynced every move_explorer and backtrack_explorer call starts
\* at the node the explorer is at and follows a passage of edges_list; at the
\* end of every segment from anim_start on, stack_data is a simple path from
\* node 0 whose top is the explorer's node; pop_stack is only applied to a
\* non-empty stack; the final stack is [0, 1, 2, 3, 6].
C24_ExplorerFollowsStack ==
    (prog = "scene" /\ scene = "DFSSynced") =>
        /\ \A i \in 1..Len(self.moves) :
               /\ self.moves[i].from = self.moves[i].at
               /\ IsMazeEdge(self.moves[i].from, self.moves[i].to)
        /\ \A i \in 1..Len(self.pops) : self.pops[i] > 0
        /\ (spc \in {"construct", "done"} /\ "stack_data" \in attrs) =>
              /\ IsSimplePathFromStart(self.stack_data)
              /\ self.stack_data[Len(self.stack_data)] = self.explorer
        /\ spc = "done" => self.stack_data = << 0, 1, 2, 3, 6 >>

\* a and b are joined by an edge of edges_data.
Joined(a, b) ==
    \E i \in 1..Len(edges_data) : {edges_data[i][1], edges_data[i][2]} = {a, b}

\* The weight of the edge that joins a and b.
Weight(a, b) ==
    LET i == CHOOSE j \in 1..Len(edges_data) :
                 {edges_data[j][1], edges_data[j][2]} = {a, b}
    IN  edges_data[i][3]

\* Distance d is strictly smaller than distance e.
Less(d, e) == ~d.inf /\ (e.inf \/ d.val < e.val)

Plus(d, w) == IF d.inf THEN Infinite ELSE Finite(d.val + w)

MinDist(S) == CHOOSE d \in S : \A e \in S : ~Less(e, d)

\* Bellman-Ford relaxation rounds over edges_data.
RECURSIVE Relaxed(_, _)
Relaxed(D, rounds) ==
    IF rounds = 0 THEN D
    ELSE Relaxed([n \in Nodes |->
                     MinDist({D[n]} \cup
                             {Plus(D[x], Weight(x, n)) :
                                  x \in {y \in Nodes : Joined(y, n)}})],
                 rounds - 1)

\* The true shortest-path distances from A in edges_data.
ShortestFromA ==
    Relaxed([n \in Nodes |-> IF n = "A" THEN Finite(0) ELSE Infinite],
            Cardinality(Nodes) - 1)

\* The node is the start node or has been visited, by its colour.
Settled(node_stroke, n) == node_stroke[n] \in {"NODE_START", "NODE_VISITED"}

\* Segment 16_visit_e has returned.
After16 ==
    /\ \E i \in 1..Len(invoked) : invoked[i] = "16_visit_e"
    /\ seg_id = "16_visit_e" => spc \in {"construct", "done"}

\* C25: every update_distance(node, v) writes distances[u] + weight(u, node)
\* for a start or visited node u whose edge to node is highlighted, and v is
\* strictly below the node's previous value; after segment 16_visit_e the
\* table holds the true shortest distances from A: 0, 3, 2, 8, 10.
C25_UpdatesAreRelaxations ==
    (prog = "scene" /\ scene = "DijkstraV2Synced") =>
        /\ spc # "raised"
        /\ \A i \in 1..Len(self.updates) :
               LET u == self.updates[i]
               IN  /\ \E x \in Nodes :
                          /\ Settled(u.node_stroke, x)
                          /\ << x, u.node >> \in u.active \/ << u.node, x >> \in u.active
                          /\ Finite(u.new) = Plus(u.distances[x], Weight(x, u.node))
                   /\ Less(Finite(u.new), u.distances[u.node])
        /\ After16 =>
              /\ self.distances = ShortestFromA
              /\ self.distances =
                     [n \in Nodes |->
                         Finite(CASE n = "A" -> 0 [] n = "B" -> 3 [] n = "C" -> 2
                                  [] n = "D" -> 8 [] n = "E" -> 10)]

\* The Dijkstra scene has finished after six updates, two of which (B to 3,
\* D to 8) lowered a finite value.
C25_Witness ==
    /\ prog = "scene"
    /\ scene = "DijkstraV2Synced"
    /\ spc = "done"
    /\ Len(self.updates) = 6
    /\ self.updates[3].node = "B"
    /\ self.updates[3].distances["B"] = Finite(4)
    /\ self.distances["B"] = Finite(3)
    /\ self.distances["E"] = Finite(10)

\* C26: each node passed to visit_node has, when it is visited, the smallest
\* tentative distance among the nodes that are neither the start nor visited
\* yet; the visits are C, B, D, E in this order; and no update_distance
\* changes a node that is the start or already visited.
C26_VisitsClosestFirst ==
    (prog = "scene" /\ scene = "DijkstraV2Synced") =>
        /\ \A i \in 1..Len(self.visits) :
               LET v == self.visits[i]
               IN  /\ ~Settled(v.node_stroke, v.node)
                   /\ ~v.distances[v.node].inf
                   /\ \A n \in Nodes :
                          ~Settled(v.node_stroke, n) =>
                              ~Less(v.distances[n], v.distances[v.node])
        /\ [i \in 1..Len(self.visits) |-> self.visits[i].node]
               = SubSeq(<< "C", "B", "D", "E" >>, 1, Len(self.visits))
        /\ Len(self.visits) <= 4
        /\ \A i \in 1..Len(self.updates) :
               ~Settled(self.updates[i].node_stroke, self.updates[i].node)
        /\ spc = "done" => Len(self.visits) = 4

\* B is visited with distance 3 while D (10) and E are still unvisited and C
\* is already visited.
C26_Witness ==
    /\ prog = "scene"
    /\ scene = "DijkstraV2Synced"
    /\ Len(self.visits) = 2
    /\ self.visits[2].node = "B"
    /\ self.visits[2].distances["B"] = Finite(3)
    /\ self.visits[2].distances["D"] = Finite(10)
    /\ self.visits[2].node_stroke["C"] = "NODE_VISITED"
    /\ self.node_stroke["B"] = "NODE_VISITED"

\* The node sequence A, C, B, D, E.
ShownPath == << "A", "C", "B", "D", "E" >>

RECURSIVE PathWeight(_, _)
PathWeight(p, n) ==
    IF n = 0 THEN 0 ELSE PathWeight(p, n - 1) + Weight(p[n][1], p[n][2])

\* C27: the edges anim_18_path highlights are edges of edges_data, they join
\* A, C, B, D, E in this order, and their weights sum to 10, the table's
\* distance of E and the shortest distance from A to E in the graph.
C27_PathIsShortest ==
    (prog = "scene" /\ scene = "DijkstraV2Synced") =>
        /\ \A i \in 1..Len(self.path) :
               /\ self.path[i] \in DOMAIN self.stroke
               /\ \E j \in 1..Len(edges_data) :
                      self.path[i] = << edges_data[j][1], edges_data[j][2] >>
               /\ {self.path[i][1], self.path[i][2]} = {ShownPath[i], ShownPath[i + 1]}
               /\ self.stroke[self.path[i]] = "EDGE_PATH"
        /\ Len(self.path) <= 4
        /\ (\E i \in 1..Len(invoked) : invoked[i] = "18_path")
              /\ (seg_id = "18_path" => spc \in {"pad", "construct", "done"})
              => /\ Len(self.path) = 4
                 /\ PathWeight(self.path, 4) = 10
                 /\ self.distances["E"] = Finite(10)
                 /\ ShortestFromA["E"] = Finite(10)

\* anim_18_path has highlighted its four edges, the second one, B-C, being
\* walked from C to B.
C27_Witness ==
    /\ prog = "scene"
    /\ scene = "DijkstraV2Synced"
    /\ spc = "pad"
    /\ seg_id = "18_path"
    /\ self.path = << <<"A", "C">>, <<"B", "C">>, <<"B", "D">>, <<"D", "E">> >>
    /\ self.stroke[<<"B", "C">>] = "EDGE_PATH"

=============================================================================
